---- MODULE Spec2Model ----
(***************************************************************************)
(* The object renderer of a canvas entity (CanvasObjectRenderer), its      *)
(* primitive renderers (the image renderer of CanvasImage.ts; the line and *)
(* rect renderers by their common contract) and the draft buffer.          *)
(*                                                                         *)
(* Object states live in a heap and are named by reference, because the    *)
(* code compares them by identity and commitBuffer rewrites an id in       *)
(* place.  Every async call in flight is a frame of `calls`.  A step is one *)
(* task of the event loop: a call from outside or the settling of an       *)
(* awaited load, run up to the next await that waits for the outside.      *)
(*                                                                         *)
(* The entity that owns the object renderer (CanvasInpaintMask) is the     *)
(* variable `entity`; its update calls render and goes on when render      *)
(* returns.  The transform controller is known by the calls made on it.    *)
(***************************************************************************)
EXTENDS Integers, Sequences, FiniteSets, TLC

\* Bounds of the model.
MaxLen == 2      \* longest object list handed to render
MaxNew == 2      \* object states created at run time (drafts, rasterized images)
MaxCalls == 2    \* async calls in flight at once
MaxLoads == 3    \* image loads counted on one image renderer

Null == 0

\* The four variants of AnyObjectState, and a kind outside the union.
KnownKinds == {"brush_line", "eraser_line", "rect", "image"}
DraftKinds == KnownKinds \cup {"other"}

\* The object states the state container holds when the entity is created:
\* a brush line and a later snapshot of the same brush line (same id, new
\* reference), which has been given a clip region.  Further objects come from committed drafts and from
\* rasterize.
InitHeap ==
  << [id |-> 1, type |-> "brush_line", name |-> 0, clip |-> FALSE],
     [id |-> 1, type |-> "brush_line", name |-> 0, clip |-> TRUE] >>

NInit == Len(InitHeap)
MaxRef == NInit + MaxNew
\* every new object takes one id at creation and one more when committed
MaxId == 1 + 2 * MaxNew

VARIABLES
  heap,       \* reference -> object state [id, type, name, clip]
  known,      \* references the state container holds (may appear in object lists)
  nextId,     \* the next id getPrefixedId hands out
  buffer,     \* this.buffer: a reference or Null
  renderers,  \* this.renderers: id -> primitive renderer
  orphans,    \* destroyed primitive renderers that a call in flight still holds
  group,      \* children of konva.objectGroup, bottom to top, by renderer id
  calls,      \* async calls in flight
  mutations,  \* requests issued to the state container, oldest first
  alive,      \* FALSE once destroy() has run
  objects,    \* the list passed to the most recent render
  entity,     \* the entity: stored snapshot, isFirstRender, layer visibility
  subscriptions,    \* this.subscriptions: the stores still listened to
  stageAttrs,       \* the value of the $stageAttrs store
  toolState,        \* the value of manager.toolState
  compositingRect,  \* attributes of konva.compositingRect
  mon,        \* history: progress of a render that runs alone
  ev          \* history: what the last step did

vars == << heap, known, nextId, buffer, renderers, orphans, group, calls,
           mutations, alive, objects, entity, subscriptions, stageAttrs,
           toolState, compositingRect, mon, ev >>

Slots == 1..MaxCalls

\* The object lists of the entity's snapshots.  A list is known by its place
\* here: the entity compares lists by identity.
EntityLists == << << >>, << 1 >>, << 2 >>, << 1 >> >>

\* The snapshots of the entity: its object list (ol), position (pos, compared
\* by identity), isEnabled (en) and the rest of its fields (v).  Two
\* snapshots are the same reference when they are equal here.
Snapshots == [ol : 1..Len(EntityLists), pos : 1..2, en : BOOLEAN, v : 1..2]

NoSnapshot == [ol |-> 0, pos |-> 0, en |-> FALSE, v |-> 0]

\* A call in flight.  n: the renderer whose image load it is inside (an id
\* of the map, or minus the name of an orphan); r: the object state it renders;
\* k: the number of that load among the loads started on the renderer;
\* sn: the snapshot of the entity update that has called render.
IdleFrame ==
  [op |-> "idle", pc |-> "idle", list |-> << >>, i |-> 0, did |-> FALSE,
   n |-> 0, r |-> Null, k |-> 0, sn |-> NoSnapshot]

MonIdle == [phase |-> "idle", res |-> FALSE]

\* Values of the $stageAttrs store.  Positions and dimensions are multiples
\* of every scale, so that the quotients of the listener are whole numbers.
StageAttrs ==
  [position : [x : {-2, 0, 2}, y : {-2, 0}], scale : {1, 2},
   dimensions : [width : {2, 4}, height : {2, 4}]]

\* The stage when the entity is created.
InitStageAttrs ==
  [position |-> [x |-> 0, y |-> 0], scale |-> 1,
   dimensions |-> [width |-> 2, height |-> 2]]

\* new Konva.Rect({ name, listening, globalCompositeOperation }): position
\* and size are not given and have Konva's defaults.
NewCompositingRect == [x |-> 0, y |-> 0, width |-> 0, height |-> 0]

\* Values of manager.toolState: the selected tool and the rest of the
\* tool's settings (here a brush width).
ToolStates == [selected : {"brush", "eraser"}, width : {1, 2}]

InitToolState == [selected |-> "brush", width |-> 1]

\* The stores the constructor listens to.
NewSubscriptions == {"toolState", "stageAttrs"}

----------------------------------------------------------------------------
\* Helpers

\* objectStates.map((objectState) => objectState.id)
ObjectIds(l) == {heap[l[k]].id : k \in 1..Len(l)}

\* getPrefixedId: an id that no object has had.
GetPrefixedId == nextId

\* this.buffer?.id
BufferId == IF buffer = Null THEN 0 ELSE heap[buffer].id

RECURSIVE Without(_, _)
Without(s, dead) ==
  IF s = << >> THEN << >>
  ELSE IF Head(s) \in dead THEN Without(Tail(s), dead)
       ELSE << Head(s) >> \o Without(Tail(s), dead)

Restrict(f, keep) == [x \in keep |-> f[x]]

With(f, k, v) == [x \in DOMAIN f \cup {k} |-> IF x = k THEN v ELSE f[x]]

Min(S) == CHOOSE x \in S : \A y \in S : x <= y

FreeSlot == IF \E s \in Slots : calls[s].op = "idle"
            THEN Min({s \in Slots : calls[s].op = "idle"})
            ELSE 0

NoCalls == \A s \in Slots : calls[s].op = "idle"

\* Object lists the state container can hand to render: its own objects,
\* ids unique within the entity.
Lists ==
  {l \in UNION {[1..k -> known] : k \in 0..MaxLen} :
     \A a, b \in 1..Len(l) : a # b => heap[l[a]].id # heap[l[b]].id}

----------------------------------------------------------------------------
\* Primitive renderers

\* A renderer fresh from its constructor.  CanvasImageRenderer: state is the
\* constructor's argument, no bitmap node, the placeholder is in the group.
NewRenderer(h, r) ==
  [type |-> h[r].type, state |-> r, destroyed |-> 0,
   isLoading |-> FALSE, isError |-> FALSE,
   el |-> 0,             \* imageElement: name of the decoded bitmap, 0 = null
   img |-> 0,            \* konva.image: name of the bitmap it shows, 0 = no node
   imgVisible |-> TRUE,  \* konva.image.visible()
   phVisible |-> TRUE,   \* konva.placeholder.group.visible()
   phText |-> "loading",
   nth |-> 0,            \* history: loads started on this renderer (up to MaxLoads)
   shown |-> 0,          \* history: the number of the load whose bitmap img is
   asked |-> r,          \* history: the state of the most recent call of update
   locked |-> FALSE]     \* this.mutex is held

\* update(state, force) of the brush line, eraser line and rect renderers:
\* work is done, and true returned, when forced or when the state is a new
\* reference.
ShapeUpdate(x, r, force) ==
  IF force \/ x.state # r
  THEN [x |-> [x EXCEPT !.state = r], res |-> TRUE, wait |-> FALSE]
  ELSE [x |-> x, res |-> FALSE, wait |-> FALSE]

\* CanvasImageRenderer.updateImageSource up to its first await.
ImageSourceStart(x) ==
  [x EXCEPT !.nth = IF @ < MaxLoads THEN @ + 1 ELSE @,
            !.isLoading = TRUE,
            !.phVisible = IF x.img = 0 THEN FALSE ELSE @,
            !.phText = IF x.img = 0 THEN "loading" ELSE @]

\* Whether update starts a load: force || (image_name differs && !isLoading).
UpdateStartsLoad(h, x, r, force) ==
  force \/ (h[x.state].name # h[r].name /\ ~x.isLoading)

\* Variant of ImageUpdate that skips the identity test: every call does work.
ImageUpdateAlways(h, x, r, force) ==
  IF UpdateStartsLoad(h, x, r, force)
  THEN [x |-> ImageSourceStart(x), res |-> FALSE, wait |-> TRUE]
  ELSE [x |-> [x EXCEPT !.state = r], res |-> TRUE, wait |-> FALSE]

\* Variant of ImageUpdate whose call with the stored state clears the error
\* flag.
ImageUpdateClearsError(h, x, r, force) ==
  IF force \/ x.state # r
  THEN IF UpdateStartsLoad(h, x, r, force)
       THEN [x |-> ImageSourceStart(x), res |-> FALSE, wait |-> TRUE]
       ELSE [x |-> [x EXCEPT !.state = r], res |-> TRUE, wait |-> FALSE]
  ELSE [x |-> [x EXCEPT !.isError = FALSE], res |-> FALSE, wait |-> FALSE]

\* CanvasImageRenderer.update up to its first await; without a load the
\* whole of it.  wait = TRUE: suspended in updateImageSource.
ImageUpdate(h, x, r, force) ==
  IF force \/ x.state # r
  THEN IF UpdateStartsLoad(h, x, r, force)
       THEN [x |-> ImageSourceStart(x), res |-> FALSE, wait |-> TRUE]
       ELSE [x |-> [x EXCEPT !.state = r], res |-> TRUE, wait |-> FALSE]
  ELSE [x |-> x, res |-> FALSE, wait |-> FALSE]

\* Variant of OnFailedToLoadImage that leaves the bitmap node as it is.
OnFailedKeepImage(x) ==
  [x EXCEPT !.isLoading = FALSE, !.isError = TRUE,
            !.phText = "error", !.phVisible = TRUE]

\* CanvasImageRenderer.onFailedToLoadImage
OnFailedToLoadImage(x) ==
  [x EXCEPT !.imgVisible = IF x.img = 0 THEN @ ELSE FALSE,
            !.isLoading = FALSE, !.isError = TRUE,
            !.phText = "error", !.phVisible = TRUE]

\* CanvasImageRenderer.updateImageElement, between acquire and release (no
\* await in between): swap the decoded bitmap in.
UpdateImageElement(x) ==
  IF x.el # 0
  THEN [x EXCEPT !.img = x.el, !.isLoading = FALSE, !.isError = FALSE,
                 !.phVisible = FALSE]
  ELSE x

\* The try block of updateImageElement up to the place it leaves: at its
\* end ("ok"), or by a throw of a Konva call before the bitmap node has the
\* new element ("early") or after ("late").
SwapBody(x, thrown) ==
  CASE thrown = "early" -> x
    [] thrown = "late" -> [x EXCEPT !.img = x.el]
    [] OTHER -> UpdateImageElement(x)

\* Variant of LockedSwap whose release is not in a finally block.
LockedSwapNoFinally(x, thrown) ==
  IF thrown = "ok"
  THEN [SwapBody([x EXCEPT !.locked = TRUE], thrown) EXCEPT !.locked = FALSE]
  ELSE SwapBody([x EXCEPT !.locked = TRUE], thrown)

\* updateImageElement as a whole: mutex.acquire(), the try block, and
\* release() in its finally block.
LockedSwap(x, thrown) ==
  [SwapBody([x EXCEPT !.locked = TRUE], thrown) EXCEPT !.locked = FALSE]

\* The rest of CanvasImageRenderer.update after updateImageSource returned.
ImageUpdateTail(x, r) == [x EXCEPT !.state = r]

\* destroy() of a primitive renderer: its group leaves the scene.
DestroyRenderer(x) == [x EXCEPT !.destroyed = IF @ < 2 THEN @ + 1 ELSE @]

----------------------------------------------------------------------------
\* The scene in the middle of a step

\* w = [hp, rs, or, gp, cs] stands for (heap, renderers, orphans, group,
\* calls); built and died record the renderers the step has constructed and
\* how often it has called destroy() on each, forced the force argument of
\* the last update it has called on each, trail its calls of destroy (of a
\* renderer id) and update (of an object state, with what it returned if it
\* returned at once), first to last.
World ==
  [hp |-> heap, rs |-> renderers, or |-> orphans, gp |-> group, cs |-> calls,
   built |-> {}, died |-> << >>, forced |-> << >>, trail |-> << >>]

LoadPcs == {"dto", "img"}

\* The calls that are inside render: render called from outside, and the
\* entity's update.
RenderOps == {"render", "update"}

\* The renderer behind a frame's handle.
Get(w, n) == IF n > 0 THEN w.rs[n] ELSE w.or[-n]
Put(w, n, x) == IF n > 0 THEN [w EXCEPT !.rs[n] = x] ELSE [w EXCEPT !.or[-n] = x]

NewOrphan(or) == Min({k \in 1..(Cardinality(DOMAIN or) + 1) : k \notin DOMAIN or})

\* The renderer of id leaves the map and is destroyed.  A call that is
\* inside one of its image loads keeps hold of the destroyed renderer.
Remove(w, id) ==
  LET holders == {s \in Slots : w.cs[s].pc \in LoadPcs /\ w.cs[s].n = id}
      k == NewOrphan(w.or)
  IN  [w EXCEPT !.rs = Restrict(w.rs, DOMAIN w.rs \ {id}),
                !.gp = Without(w.gp, {id}),
                !.died = With(w.died, id, IF id \in DOMAIN w.died THEN w.died[id] + 1 ELSE 1),
                !.trail = Append(@, [op |-> "destroy", of |-> id, res |-> TRUE]),
                !.or = IF holders = {} THEN @ ELSE With(@, k, DestroyRenderer(w.rs[id])),
                !.cs = [s \in Slots |-> IF s \in holders THEN [w.cs[s] EXCEPT !.n = -k]
                                        ELSE w.cs[s]]]

\* Variant of RemoveAll that stops after the first renderer.
RemoveAllFirst(w, ids) ==
  IF ids = {} THEN w ELSE Remove(w, Min(ids))

RECURSIVE RemoveAll(_, _)
RemoveAll(w, ids) ==
  IF ids = {} THEN w ELSE RemoveAll(Remove(w, Min(ids)), ids \ {Min(ids)})

\* Orphans no call holds any more can no longer be reached.
Held(cs) == {-cs[s].n : s \in {t \in Slots : cs[t].pc \in LoadPcs /\ cs[t].n < 0}}

\* The last step: the renderers it built, those it destroyed, the force
\* argument of the updates renderObject has called in it, its calls of
\* destroy and update on primitive renderers in order, whether it
\* was a call of commitBuffer, when it settled an image load of a destroyed
\* renderer, that renderer before and after, and, when it was a destroy,
\* what it tore down, first to last.
Ev(w) ==
  [built |-> w.built, died |-> w.died, forced |-> w.forced, trail |-> w.trail,
   commit |-> FALSE, stale |-> << >>, order |-> << >>]

\* The history of a render that runs alone, after frame f moved.
MonAfter(m, f) ==
  IF f.pc = "rejected" THEN MonIdle
  ELSE IF f.op \in RenderOps /\ f.pc = "done" /\ m.phase \in {"run1", "run2"}
  THEN [phase |-> IF m.phase = "run1" THEN "done1" ELSE "done2",
        res |-> f.did]
  ELSE m

----------------------------------------------------------------------------
\* The entity (CanvasInpaintMask)

\* hasObjects(): this.renderers.size > 0 || this.buffer !== null
HasObjectsOf(rs, b) == Cardinality(DOMAIN rs) > 0 \/ b # Null

\* History: what an update call has done so far.
NewCall(e, sn) ==
  [kind |-> "pending", sn |-> sn, first |-> e.isFirstRender, render |-> FALSE,
   did |-> FALSE, rect |-> FALSE, position |-> FALSE, visibility |-> FALSE,
   bbox |-> FALSE]

\* Variant of UpdatePlan that renders on every call.
UpdatePlanAlwaysRender(e, sn) == "render"

\* update's way through its tests: return at once, call updateObjects, or go
\* straight to the position test.
UpdatePlan(e, sn) ==
  IF ~e.isFirstRender /\ sn = e.state THEN "skip"
  ELSE IF e.isFirstRender \/ sn.ol # e.state.ol THEN "render"
  ELSE "rest"

\* Variant of UpdateObjectsTail that requests the rect calculation whatever
\* render has returned.
UpdateObjectsTailAlways(e, did) ==
  [e EXCEPT !.isFirstRender = FALSE,
            !.last.render = TRUE, !.last.did = did, !.last.rect = TRUE]

\* updateObjects after render has returned did: the rect calculation is
\* requested if did, and isFirstRender is cleared.
UpdateObjectsTail(e, did) ==
  [e EXCEPT !.isFirstRender = FALSE,
            !.last.render = TRUE, !.last.did = did, !.last.rect = did]

\* update from its position test to its end; has: what hasObjects() returns.
UpdateRest(e, sn, has) ==
  LET pos == e.isFirstRender \/ sn.pos # e.state.pos
      vis == e.isFirstRender \/ sn.en # e.state.en
      bbox == e.isFirstRender
  IN  [e EXCEPT !.visible = IF vis THEN sn.en /\ has ELSE @,
                !.state = sn,
                !.isFirstRender = FALSE,
                !.last.position = pos, !.last.visibility = vis, !.last.bbox = bbox,
                !.last.kind = "done"]

\* The entity after the frame f of a call has moved: an update whose render
\* has returned runs to its end; one whose render has thrown is rejected.
EntityAfter(w, f) ==
  IF f.op # "update" THEN entity
  ELSE LET e == [entity EXCEPT !.last = NewCall(entity, f.sn)]
       IN  IF f.pc = "done"
           THEN UpdateRest(UpdateObjectsTail(e, f.did), f.sn, HasObjectsOf(w.rs, buffer))
           ELSE IF f.pc = "rejected" THEN [e EXCEPT !.last.kind = "rejected"]
           ELSE e

\* A frame that has just entered an image load takes the number of the load.
Stamp(w, f) == IF f.pc = "dto" THEN [f EXCEPT !.k = Get(w, f.n).nth] ELSE f

\* Install the world w and the frame f of slot s.
Install(w, s, f, m) ==
  /\ renderers' = w.rs
  /\ calls' = [w.cs EXCEPT ![s] = IF f.pc \in {"done", "rejected"} THEN IdleFrame
                                 ELSE Stamp(w, f)]
  /\ orphans' = Restrict(w.or, Held(calls') \cap DOMAIN w.or)
  /\ group' = w.gp
  /\ mon' = MonAfter(m, f)
  /\ entity' = IF f.op = "update" /\ calls[s].op = "idle"
               THEN [EntityAfter(w, f) EXCEPT !.supplied = f.sn]
               ELSE EntityAfter(w, f)

----------------------------------------------------------------------------
\* CanvasObjectRenderer.renderObject

\* renderObject(objectState, force) up to its first await.
\*   threw: an assert failed;  wait: suspended in an image load;
\*   res: what the primitive's update returned.
RenderObject(w, r, force) ==
  LET t == w.hp[r].type
      id == w.hp[r].id
      exists == id \in DOMAIN w.rs
      w1 == IF exists THEN w
            ELSE [w EXCEPT !.rs = With(w.rs, id, NewRenderer(w.hp, r)),
                           !.gp = Append(w.gp, id),
                           !.built = @ \cup {id}]
      f == force \/ ~exists
      u == IF t = "image" THEN ImageUpdate(w.hp, w1.rs[id], r, f)
           ELSE ShapeUpdate(w1.rs[id], r, f)
  IN  IF t \notin KnownKinds
      THEN [w |-> w, n |-> 0, res |-> FALSE, wait |-> FALSE, threw |-> FALSE]
      ELSE IF exists /\ w.rs[id].type # t
      THEN [w |-> w, n |-> 0, res |-> FALSE, wait |-> FALSE, threw |-> TRUE]
      ELSE [w |-> [w1 EXCEPT !.rs[id] = [u.x EXCEPT !.asked = r],
                             !.forced = With(@, id, f),
                             !.trail = Append(@, [op |-> "update", of |-> r,
                                                  res |-> u.res])],
            n |-> id, res |-> u.res, wait |-> u.wait, threw |-> FALSE]

----------------------------------------------------------------------------
\* CanvasObjectRenderer.render

\* Variant of IsStale that keeps every renderer while no buffer is set.
IsStaleWithBuffer(id, l) ==
  id \notin ObjectIds(l) /\ id # BufferId /\ buffer # Null

\* Variant of IsStale that forgets the list: only the buffer's renderer
\* survives a render.
IsStaleAll(id, l) == id # BufferId

\* Variant of IsStale that forgets the buffer: a render removes the buffer's
\* renderer unless its id is in the list.
IsStaleNoBuffer(id, l) == id \notin ObjectIds(l)

\* A renderer is removed by render when its id is neither in the list nor
\* the buffer's.
IsStale(id, l) == id \notin ObjectIds(l) /\ id # BufferId

\* Variant of RemoveStale that destroys the stale renderers and leaves them
\* in the map.
RemoveStaleKeep(w, l) ==
  [RemoveAll(w, {id \in DOMAIN w.rs : IsStale(id, l)}) EXCEPT !.rs = w.rs]

\* The first loop of render: every stale renderer leaves the map and is
\* destroyed.
RemoveStale(w, l) == RemoveAll(w, {id \in DOMAIN w.rs : IsStale(id, l)})

\* render from the object at f.i up to its next image load, or to its
\* return: the objects in list order, then the buffer (as it is at that
\* moment).  An update that loads nothing returns within the same task.
RECURSIVE RenderSegment(_, _)
RenderSegment(w, f) ==
  IF f.i <= Len(f.list)
  THEN LET o == RenderObject(w, f.list[f.i], FALSE)
       IN  IF o.threw THEN [w |-> o.w, f |-> [f EXCEPT !.pc = "rejected"]]
           ELSE IF o.wait
           THEN [w |-> o.w,
                 f |-> [f EXCEPT !.pc = "dto", !.n = o.n, !.r = f.list[f.i]]]
           ELSE RenderSegment(o.w, [f EXCEPT !.i = @ + 1, !.did = @ \/ o.res])
  ELSE IF buffer # Null
  THEN LET o == RenderObject(w, buffer, FALSE)
       IN  IF o.threw THEN [w |-> o.w, f |-> [f EXCEPT !.pc = "rejected"]]
           ELSE IF o.wait
           THEN [w |-> o.w,
                 f |-> [f EXCEPT !.pc = "dto", !.n = o.n, !.r = buffer]]
           ELSE [w |-> o.w,
                 f |-> [f EXCEPT !.pc = "done", !.did = @ \/ o.res]]
  ELSE [w |-> w, f |-> [f EXCEPT !.pc = "done"]]

\* render(l), called from outside (op = "render") or by the entity's update
\* of snapshot sn (op = "update").
RenderAs(l, op, sn) ==
  /\ alive
  /\ FreeSlot # 0
  /\ LET s == FreeSlot
         w0 == RemoveStale(World, l)
         gone == w0.died # << >>
         f0 == [IdleFrame EXCEPT !.op = op, !.list = l, !.i = 1,
                                 !.did = gone, !.sn = sn]
         m0 == IF NoCalls
               THEN [phase |-> IF mon.phase \in {"done1", "done2"} /\ objects = l
                               THEN "run2" ELSE "run1",
                     res |-> FALSE]
               ELSE MonIdle
     IN  \E seg \in {RenderSegment(w0, f0)} :
           /\ Install(seg.w, s, seg.f, m0)
           /\ ev' = Ev(seg.w)
  /\ objects' = l
  /\ UNCHANGED << heap, known, nextId, buffer, mutations, alive, subscriptions, stageAttrs, toolState,
                  compositingRect >>

RenderStart(l) == RenderAs(l, "render", NoSnapshot)

\* CanvasInpaintMask.update with snapshot sn.
EntityUpdate(sn) ==
  /\ alive
  /\ \E plan \in {UpdatePlan(entity, sn)} :
       IF plan = "render"
       THEN RenderAs(EntityLists[sn.ol], "update", sn)
       ELSE /\ entity' =
                 LET e == [entity EXCEPT !.last = NewCall(entity, sn),
                                         !.supplied = sn]
                 IN  IF plan = "skip" THEN [e EXCEPT !.last.kind = "skipped"]
                     ELSE UpdateRest(e, sn, HasObjectsOf(renderers, buffer))
            /\ ev' = Ev(World)
            /\ UNCHANGED << heap, known, nextId, buffer, renderers, orphans, group,
                            calls, mutations, alive, subscriptions, stageAttrs, toolState,
                  compositingRect, objects, mon >>

----------------------------------------------------------------------------------------------------------------------------------------
\* The state container's mutation API, as the object renderer calls it

\* Variant of CommitKind without the rect branch.
CommitKindNoRect(t) ==
  CASE t = "brush_line" -> "addBrushLine"
    [] t = "eraser_line" -> "addEraserLine"
    [] OTHER -> "none"

\* commitBuffer's dispatch on the buffer's type.
CommitKind(t) ==
  CASE t = "brush_line" -> "addBrushLine"
    [] t = "eraser_line" -> "addEraserLine"
    [] t = "rect" -> "addRect"
    [] OTHER -> "none"

Mutation(kind, key, r, id) == [kind |-> kind, key |-> key, obj |-> r, id |-> id]

----------------------------------------------------------------------------
\* Image loads in flight (CanvasImageRenderer.updateImageSource)

\* Variant of AfterImageUpdate in which render drops what the image update
\* returned.
AfterImageUpdateDropped(w, f) ==
  IF f.op \in RenderOps /\ f.i <= Len(f.list)
  THEN RenderSegment(w, [f EXCEPT !.i = @ + 1])
  ELSE [w |-> w, f |-> [f EXCEPT !.pc = "done"]]

\* A frame whose image update has finished returns to its caller.
AfterImageUpdate(w, f) ==
  IF f.op \in RenderOps /\ f.i <= Len(f.list)
  THEN RenderSegment(w, [f EXCEPT !.i = @ + 1, !.did = TRUE])
  ELSE [w |-> w, f |-> [f EXCEPT !.pc = "done", !.did = TRUE]]

\* Variant of Reports in which every caller of an image update reports to
\* the state container.
ReportsAlways(f) == TRUE

\* Of the callers of renderObject only rasterize goes on to issue a request
\* (rasterizeEntity); render and setBuffer issue none.
Reports(f) == f.op = "rasterize"

\* The image load of frame s has ended and left its renderer as x: update
\* stores the state and returns true, and the caller goes on in the same
\* task: render with its next object, rasterize with its request to the
\* state container.
Settle(s, x) ==
  LET f == calls[s]
      report == Reports(f)
  IN  /\ \E seg \in {AfterImageUpdate(Put(World, f.n, ImageUpdateTail(x, f.r)), f)} :
           /\ Install(seg.w, s, seg.f, mon)
           /\ ev' = [Ev(seg.w) EXCEPT
                       !.stale = IF f.n < 0 THEN << orphans[-f.n], ImageUpdateTail(x, f.r) >>
                                 ELSE << >>]
      /\ mutations' = IF report
                      THEN Append(mutations,
                                  Mutation("rasterizeEntity", "renderer", f.r, heap[f.r].id))
                      ELSE mutations
      /\ known' = IF report THEN known \cup {f.r} ELSE known

\* await getImageDTO(imageName) settles: a DTO, null (not found) or a throw.
GetImageDTODone(s, out) ==
  /\ calls[s].pc = "dto"
  /\ IF out = "ok"
     THEN /\ Install(World, s, [calls[s] EXCEPT !.pc = "img"], mon)
          /\ ev' = Ev(World)
          /\ UNCHANGED << mutations, known >>
     ELSE Settle(s, OnFailedToLoadImage(Get(World, calls[s].n)))
  /\ UNCHANGED << heap, nextId, buffer, alive, subscriptions, stageAttrs, toolState,
                  compositingRect, objects >>

\* await loadImage(url) settles: the decode throws ("throw"), or the decoded
\* element is stored in this.imageElement and updateImageElement swaps it in
\* ("ok") or throws on the way ("early", "late"), which the catch of
\* updateImageSource turns into a failed load.  mutex.acquire() resolves
\* when the mutex is free; the call waits for that at the same place.
LoadImageDone(s, out) ==
  /\ calls[s].pc = "img"
  /\ out # "throw" => ~Get(World, calls[s].n).locked
  /\ LET x == Get(World, calls[s].n)
         y == LockedSwap([x EXCEPT !.el = heap[calls[s].r].name], out)
     IN  CASE out = "ok" -> Settle(s, [y EXCEPT !.shown = calls[s].k])
           [] out = "late" -> Settle(s, OnFailedToLoadImage([y EXCEPT !.shown = calls[s].k]))
           [] out = "early" -> Settle(s, OnFailedToLoadImage(y))
           [] OTHER -> Settle(s, OnFailedToLoadImage(x))
  /\ UNCHANGED << heap, nextId, buffer, alive, subscriptions, stageAttrs, toolState,
                  compositingRect, objects >>

----------------
\* The draft buffer

\* hasBuffer()
HasBuffer == buffer # Null

HasObjects == HasObjectsOf(renderers, buffer)

\* Variant of NeedsPixelBbox that does not look at the clip of brush lines.
NeedsPixelBboxNoClip ==
  \E id \in DOMAIN renderers : renderers[id].type \in {"eraser_line", "image"}

\* needsPixelBbox()
NeedsPixelBbox ==
  \E id \in DOMAIN renderers :
    LET renderer == renderers[id]
        isEraserLine == renderer.type = "eraser_line"
        isImage == renderer.type = "image"
        hasClip == renderer.type = "brush_line" /\ heap[renderer.state].clip
    IN  isEraserLine \/ hasClip \/ isImage

\* setBuffer(objectState), the object state being r of heap h: the buffer
\* is replaced and rendered with force.
SetBufferTo(h, r) ==
  /\ alive
  /\ FreeSlot # 0
  /\ LET Frame(o) == [IdleFrame EXCEPT !.op = "setBuffer", !.n = o.n, !.r = r,
                                       !.pc = IF o.threw THEN "rejected"
                                              ELSE IF o.wait THEN "dto" ELSE "done",
                                       !.did = o.res]
     IN  /\ buffer' = r
         /\ heap' = h
         /\ \E o \in {RenderObject([World EXCEPT !.hp = h], r, TRUE)} :
              /\ Install(o.w, FreeSlot, Frame(o), MonIdle)
              /\ ev' = Ev(o.w)
  /\ UNCHANGED << known, mutations, alive, subscriptions, stageAttrs, toolState,
                  compositingRect, objects >>

\* setBuffer with a new object state of kind t, its id fresh.
SetBuffer(t) ==
  /\ Len(heap) < MaxRef
  /\ nextId <= MaxId
  /\ SetBufferTo(Append(heap, [id |-> GetPrefixedId, type |-> t,
                               name |-> IF t = "image" THEN Len(heap) + 1 ELSE 0,
                               clip |-> FALSE]),
                 Len(heap) + 1)
  /\ nextId' = nextId + 1

\* setBuffer with an object state that exists and is not in the state
\* container: the draft that is the buffer, or another snapshot of it.
SetBufferAgain(r) ==
  /\ r \in (1..Len(heap)) \ known
  /\ SetBufferTo(heap, r)
  /\ UNCHANGED nextId

ClearBuffer ==
  /\ alive
  /\ buffer' = Null
  /\ mon' = MonIdle
  /\ ev' = Ev(World)
  /\ UNCHANGED << heap, known, nextId, renderers, orphans, group, calls, mutations,
                  alive, subscriptions, stageAttrs, toolState,
                  compositingRect, objects, entity >>

\* Variant of CommitId that keeps the buffer's id.
CommitIdSame(b) == heap[b].id

\* The id commitBuffer gives the buffer: getPrefixedId(this.buffer.type).
CommitId(b) == GetPrefixedId

\* Variant of CommitMutations without the early return on an empty buffer.
CommitMutationsNoGuard(b) ==
  Append(mutations,
         Mutation(IF b = Null THEN "addRect" ELSE CommitKind(heap[b].type),
                  "parent", b, nextId))

\* The requests issued once commitBuffer has run on buffer b.
CommitMutations(b) ==
  IF b = Null \/ CommitKind(heap[b].type) = "none"
  THEN mutations
  ELSE Append(mutations, Mutation(CommitKind(heap[b].type), "parent", b, CommitId(b)))

CommitBufferIn(tool) ==
  /\ alive
  /\ toolState' = tool
  /\ buffer # Null => nextId <= MaxId
  /\ mutations' = CommitMutations(buffer)
  /\ IF buffer = Null
     THEN UNCHANGED << heap, nextId, buffer, known, mon >>
     ELSE /\ heap' = [heap EXCEPT ![buffer].id = CommitId(buffer)]
          /\ nextId' = nextId + 1
          /\ buffer' = Null
          /\ known' = IF mutations' # mutations THEN known \cup {buffer} ELSE known
          /\ mon' = MonIdle
  /\ ev' = [Ev(World) EXCEPT !.commit = TRUE]
  /\ UNCHANGED << renderers, orphans, group, calls, alive, subscriptions, stageAttrs,
                  compositingRect, objects, entity >>

CommitBuffer == CommitBufferIn(toolState)

\* Variant of ToolChanged that takes any change of the tool state for a
\* change of tool.
ToolChangedAny(newVal, oldVal) == newVal # oldVal

\* The test of the toolState subscriber.
ToolChanged(newVal, oldVal) == newVal.selected # oldVal.selected

\* manager.toolState takes the value newVal and calls its subscribers with
\* the new and the old value, here the one of the constructor if destroy
\* has not removed it: commitBuffer() if the selected tool has changed.
ToolEvent(newVal) ==
  IF "toolState" \in subscriptions /\ ToolChanged(newVal, toolState)
  THEN CommitBufferIn(newVal)
  ELSE /\ toolState' = newVal
       /\ ev' = Ev(World)
       /\ UNCHANGED << heap, known, nextId, buffer, renderers, orphans, group, calls,
                       mutations, alive, objects, entity, subscriptions, stageAttrs,
                       compositingRect, mon >>

----------------------------------------------------------------------------
\* rasterize

\* rasterize(): the image object state it will wrap the upload in is kept
\* in the frame from the start (f.r); nothing refers to it before the upload
\* has succeeded.
Rasterize ==
  /\ alive
  /\ FreeSlot # 0
  /\ Len(heap) < MaxRef
  /\ nextId <= MaxId
  /\ heap' = Append(heap, [id |-> GetPrefixedId, type |-> "image",
                            name |-> Len(heap) + 1, clip |-> FALSE])
  /\ nextId' = nextId + 1
  /\ calls' = [calls EXCEPT ![FreeSlot] =
                 [IdleFrame EXCEPT !.op = "rasterize", !.pc = "blob", !.r = Len(heap) + 1]]
  /\ mon' = MonIdle
  /\ ev' = Ev(World)
  /\ UNCHANGED << known, buffer, renderers, orphans, group, mutations, alive, subscriptions, stageAttrs, toolState,
                  compositingRect, objects,
                  entity >>

\* await konvaNodeToBlob(...) settles.
BlobDone(s, out) ==
  /\ calls[s].pc = "blob"
  /\ Install(World, s, [calls[s] EXCEPT !.pc = IF out = "ok" THEN "upload" ELSE "rejected"], mon)
  /\ ev' = Ev(World)
  /\ UNCHANGED << heap, known, nextId, buffer, mutations, alive, subscriptions, stageAttrs, toolState,
                  compositingRect, objects >>

\* await uploadImage(...) settles; on success the new image object is
\* rendered with force.
UploadDone(s, out) ==
  /\ calls[s].pc = "upload"
  /\ LET f == calls[s]
         o == RenderObject(World, f.r, TRUE)
     IN  IF out = "ok"
         THEN /\ Install(o.w, s,
                         [f EXCEPT !.n = o.n,
                                   !.pc = IF o.threw THEN "rejected" ELSE "dto"],
                         mon)
              /\ ev' = Ev(o.w)
         ELSE /\ Install(World, s, [f EXCEPT !.pc = "rejected"], mon)
              /\ ev' = Ev(World)
  /\ UNCHANGED << heap, known, nextId, buffer, mutations, alive, subscriptions, stageAttrs, toolState,
                  compositingRect, objects >>

----------------------------------------------------------------------------
\* What CanvasObjectRenderer.destroy tears down, first to last: the
\* subscriptions, the primitive renderers, the map.
DestroyOrder == << "subscriptions", "renderers", "map" >>

\* CanvasObjectRenderer.destroy, called from outside or from the entity's
\* destroy, which tears down in all what `order` lists and leaves the entity
\* as e: every subscription is cancelled, every live renderer is destroyed
\* and the map cleared.
DestroyIn(order, e) ==
  /\ alive
  /\ alive' = FALSE
  /\ \E w \in {RemoveAll(World, DOMAIN renderers)} :
         /\ renderers' = w.rs
         /\ orphans' = w.or
         /\ group' = w.gp
         /\ calls' = w.cs
         /\ ev' = [Ev(w) EXCEPT !.order = order]
  /\ mon' = MonIdle
  /\ subscriptions' = {}
  /\ entity' = e
  /\ UNCHANGED << heap, known, nextId, buffer, mutations, objects, stageAttrs, toolState,
                  compositingRect >>

Destroy == DestroyIn(DestroyOrder, entity)

\* Variant of EntityDestroyOrder that destroys the layer first.
EntityDestroyLayerFirst(inner) == << "layer", "transformer" >> \o inner

\* What CanvasInpaintMask.destroy tears down, first to last, `inner` being
\* what the object renderer's destroy does.
EntityDestroyOrder(inner) == << "transformer" >> \o inner \o << "layer" >>

\* CanvasInpaintMask.destroy
EntityDestroy ==
  DestroyIn(EntityDestroyOrder(DestroyOrder),
            [entity EXCEPT !.transformer = FALSE, !.layer = FALSE])

----------------------------------------------------------------------------
\* The stage

\* The attributes the $stageAttrs listener gives the compositing rect.
CompositingRectFor(attrs) ==
  [x |-> (-attrs.position.x) \div attrs.scale,
   y |-> (-attrs.position.y) \div attrs.scale,
   width |-> attrs.dimensions.width \div attrs.scale,
   height |-> attrs.dimensions.height \div attrs.scale]

\* The stage is scaled, moved or resized: the store takes the value attrs
\* and calls its listeners, here the one of the constructor if destroy has
\* not removed it.  The parent is an inpaint mask: the rect exists.
StageEvent(attrs) ==
  /\ stageAttrs' = attrs
  /\ compositingRect' = IF "stageAttrs" \in subscriptions
                        THEN CompositingRectFor(attrs)
                        ELSE compositingRect
  /\ ev' = Ev(World)
  /\ UNCHANGED << heap, known, nextId, buffer, renderers, orphans, group, calls,
                  mutations, alive, objects, entity, subscriptions, toolState, mon >>

----------------------------------------------------------------------------

\* The entity fresh from its constructor, which stores the snapshot sn; a
\* Konva layer is visible until it is told otherwise.  transformer and
\* layer: the transform controller and the layer have not been destroyed;
\* supplied (history): the snapshot of the update call that started last.
NewEntity(sn) ==
  [state |-> sn, isFirstRender |-> TRUE, visible |-> TRUE,
   transformer |-> TRUE, layer |-> TRUE, supplied |-> sn,
   last |-> [NewCall([isFirstRender |-> TRUE], sn) EXCEPT !.kind = "none"]]

Init ==
  /\ entity = NewEntity([ol |-> 1, pos |-> 1, en |-> TRUE, v |-> 1])
  /\ heap = InitHeap
  /\ known = 1..NInit
  /\ nextId = 2
  /\ buffer = Null
  /\ renderers = << >>
  /\ orphans = << >>
  /\ group = << >>
  /\ calls = [s \in Slots |-> IdleFrame]
  /\ mutations = << >>
  /\ alive = TRUE
  /\ subscriptions = NewSubscriptions
  /\ stageAttrs = InitStageAttrs
  /\ toolState = InitToolState
  /\ compositingRect = NewCompositingRect
  /\ objects = << >>
  /\ mon = MonIdle
  /\ ev = Ev([built |-> {}, died |-> << >>, forced |-> << >>, trail |-> << >>])

\* The calls that return a promise are made one at a time, each after the
\* one before it has settled; clearBuffer, commitBuffer and destroy come at
\* any moment.
Next ==
  \/ NoCalls /\ \E l \in Lists : RenderStart(l)
  \/ \E s \in Slots, out \in {"ok", "null", "throw"} : GetImageDTODone(s, out)
  \/ \E s \in Slots, out \in {"ok", "throw"} : LoadImageDone(s, out)
  \/ NoCalls /\ \E t \in DraftKinds : SetBuffer(t)
  \/ ClearBuffer
  \/ CommitBuffer
  \/ NoCalls /\ Rasterize
  \/ \E s \in Slots, out \in {"ok", "throw"} : BlobDone(s, out)
  \/ \E s \in Slots, out \in {"ok", "throw"} : UploadDone(s, out)
  \/ Destroy

Spec == Init /\ [][Next]_vars

----------------------------------------------------------------------------
\* Image renderers under overlapping calls

\* One image object in two snapshots that name different bitmaps.
ImageHeap ==
  << [id |-> 1, type |-> "image", name |-> 1, clip |-> FALSE],
     [id |-> 1, type |-> "image", name |-> 2, clip |-> FALSE] >>

\* The image object is an object of the entity, which comes to the renderer
\* in the lists of render, or it is a draft, which comes by setBuffer.
InitImage ==
  /\ entity = NewEntity([ol |-> 1, pos |-> 1, en |-> TRUE, v |-> 1])
  /\ heap = ImageHeap
  /\ known \in {1..Len(ImageHeap), {}}
  /\ nextId = 2
  /\ buffer = Null
  /\ renderers = << >>
  /\ orphans = << >>
  /\ group = << >>
  /\ calls = [s \in Slots |-> IdleFrame]
  /\ mutations = << >>
  /\ alive = TRUE
  /\ subscriptions = NewSubscriptions
  /\ stageAttrs = InitStageAttrs
  /\ toolState = InitToolState
  /\ compositingRect = NewCompositingRect
  /\ objects = << >>
  /\ mon = MonIdle
  /\ ev = Ev([built |-> {}, died |-> << >>, forced |-> << >>, trail |-> << >>])

\* render and setBuffer are called while earlier calls are still inside an
\* image load.
NextImage ==
  \/ \E l \in Lists : RenderStart(l)
  \/ \E r \in 1..Len(ImageHeap) : SetBufferAgain(r)
  \/ \E s \in Slots, out \in {"ok", "null", "throw"} : GetImageDTODone(s, out)
  \/ \E s \in Slots, out \in {"ok", "throw"} : LoadImageDone(s, out)
  \/ Destroy

SpecImage == InitImage /\ [][NextImage]_vars

----------------------------------------------------------------------------
\* Image loads that settle

\* The image object is a draft.
InitLoad == InitImage /\ known = {}

\* Forced updates of the draft's renderer, overlapping; the swap of
\* updateImageElement may throw; destroy may come while loads are in flight.
NextLoad ==
  \/ \E r \in 1..Len(ImageHeap) : SetBufferAgain(r)
  \/ \E s \in Slots, out \in {"ok", "null", "throw"} : GetImageDTODone(s, out)
  \/ \E s \in Slots, out \in {"ok", "throw", "early", "late"} : LoadImageDone(s, out)
  \/ Destroy

\* Every fetch and every decode in flight resolves or rejects.
LoadsSettle ==
  \A s \in Slots :
    /\ WF_vars(\E out \in {"ok", "null", "throw"} : GetImageDTODone(s, out))
    /\ WF_vars(\E out \in {"ok", "throw", "early", "late"} : LoadImageDone(s, out))

SpecLoad == InitLoad /\ [][NextLoad]_vars /\ LoadsSettle

----------------------------------------------------------------------------
\* The object renderer under stage events

NextStage ==
  \/ \E attrs \in StageAttrs : StageEvent(attrs)
  \/ NoCalls /\ \E l \in Lists : RenderStart(l)
  \/ Destroy

SpecStage == Init /\ [][NextStage]_vars

----------------------------------------------------------------------------
\* The object renderer under tool-state events

NextTool ==
  \/ \E newVal \in ToolStates : ToolEvent(newVal)
  \/ NoCalls /\ \E t \in DraftKinds : SetBuffer(t)
  \/ \E s \in Slots, out \in {"ok", "null", "throw"} : GetImageDTODone(s, out)
  \/ \E s \in Slots, out \in {"ok", "throw"} : LoadImageDone(s, out)
  \/ Destroy

SpecTool == Init /\ [][NextTool]_vars

----------------------------------------------------------------------------
\* The entity and its object renderer

\* The entity is constructed with any snapshot of the first position.
InitEntity ==
  /\ entity \in {NewEntity(sn) : sn \in {x \in Snapshots : x.pos = 1 /\ x.v = 1}}
  /\ heap = InitHeap
  /\ known = 1..NInit
  /\ nextId = 2
  /\ buffer = Null
  /\ renderers = << >>
  /\ orphans = << >>
  /\ group = << >>
  /\ calls = [s \in Slots |-> IdleFrame]
  /\ mutations = << >>
  /\ alive = TRUE
  /\ subscriptions = NewSubscriptions
  /\ stageAttrs = InitStageAttrs
  /\ toolState = InitToolState
  /\ compositingRect = NewCompositingRect
  /\ objects = << >>
  /\ mon = MonIdle
  /\ ev = Ev([built |-> {}, died |-> << >>, forced |-> << >>, trail |-> << >>])

\* The state container hands the entity one snapshot after another; the
\* tools set a draft (a rect, or an object of no known kind) and clear it
\* in between.
NextEntity ==
  \/ NoCalls /\ \E sn \in Snapshots : EntityUpdate(sn)
  \/ NoCalls /\ \E t \in {"rect", "other"} : SetBuffer(t)
  \/ ClearBuffer
  \/ EntityDestroy

SpecEntity == InitEntity /\ [][NextEntity]_vars

----------------------------------------------------------------------------
\* Updates of the entity that overlap

\* The objects of the entity: an image and a brush line.  The lists of
\* EntityLists then hold the image (2 and 4) or the brush line (3).
OverlapHeap ==
  << [id |-> 1, type |-> "image", name |-> 1, clip |-> FALSE],
     [id |-> 2, type |-> "brush_line", name |-> 0, clip |-> FALSE] >>

\* The snapshots that differ in their object list only.
ListSnapshots == {sn \in Snapshots : sn.pos = 1 /\ sn.v = 1 /\ sn.en}

InitOverlap ==
  /\ entity \in {NewEntity(sn) : sn \in ListSnapshots}
  /\ heap = OverlapHeap
  /\ known = 1..Len(OverlapHeap)
  /\ nextId = 3
  /\ buffer = Null
  /\ renderers = << >>
  /\ orphans = << >>
  /\ group = << >>
  /\ calls = [s \in Slots |-> IdleFrame]
  /\ mutations = << >>
  /\ alive = TRUE
  /\ subscriptions = NewSubscriptions
  /\ stageAttrs = InitStageAttrs
  /\ toolState = InitToolState
  /\ compositingRect = NewCompositingRect
  /\ objects = << >>
  /\ mon = MonIdle
  /\ ev = Ev([built |-> {}, died |-> << >>, forced |-> << >>, trail |-> << >>])

\* update may be called while an earlier update waits for an image.
NextOverlap ==
  \/ \E sn \in ListSnapshots : EntityUpdate(sn)
  \/ \E s \in Slots, out \in {"ok", "null", "throw"} : GetImageDTODone(s, out)
  \/ \E s \in Slots, out \in {"ok", "throw"} : LoadImageDone(s, out)

SpecOverlap == InitOverlap /\ [][NextOverlap]_vars

----------------------------------------------------------------------------
\* Properties

\* A render that ran alone has returned: it started with no other call in
\* flight, and no setBuffer, clearBuffer, commitBuffer, rasterize or destroy
\* has come since it started.
RenderDone == mon.phase \in {"done1", "done2"}

\* The ids of the list of the most recent render, in list order.
ListOrder == [k \in 1..Len(objects) |-> heap[objects[k]].id]

C2_BufferOnTop ==
  (RenderDone /\ buffer # Null /\ BufferId \in DOMAIN renderers)
    => group[Len(group)] = BufferId

\* C3: once render has returned, the committed objects' subtrees are stacked
\* in the order of the list passed to it.
C3_PaintOrderIsListOrder ==
  RenderDone => Without(group, {BufferId}) = ListOrder

\* C4: a render with the list of the render before it (the same
\* references), no buffer change in between, builds and destroys no
\* renderer, finds no update that does work, and returns false.
C4_SecondRenderIdle ==
  /\ mon.phase \in {"run2", "done2"} => ev.built = {} /\ ev.died = << >>
  /\ mon.phase = "done2" => ~mon.res

\* The second of two renders of one two-object list has returned, a buffer set.
C4_Witness ==
  /\ mon.phase = "done2"
  /\ Len(objects) = 2
  /\ buffer # Null
  /\ BufferId \in DOMAIN renderers

\* The step is a call of render; its list is then objects'.
RenderStep == RenderStart(objects')

\* The renderer of id is, after the step, the instance it was before.
Kept(id) ==
  /\ id \in DOMAIN renderers'
  /\ id \notin ev'.built
  /\ id \notin DOMAIN ev'.died

\* C5: a render keeps the instance of every renderer whose id is in its
\* list, and no step but a render or destroy replaces or removes any
\* renderer: while an id stays in every list, its instance stays.
C5_SameInstance ==
  [][/\ RenderStep =>
          \A id \in DOMAIN renderers : id \in ObjectIds(objects') => Kept(id)
     /\ (alive' /\ ~RenderStep) =>
          \A id \in DOMAIN renderers : Kept(id)]_vars

\* A render has built one renderer, destroyed another and kept a third.
C5_Witness ==
  /\ RenderDone
  /\ ev.built # {}
  /\ DOMAIN ev.died # {}
  /\ \E id \in DOMAIN renderers : id \in ObjectIds(objects) /\ id \notin ev.built

\* C6: a render destroys, once, the renderer of every id that was in the
\* list before and is not in its own, and removes it from the map; no
\* renderer is ever destroyed twice, by render or by destroy.
C6_DestroyedOnce ==
  [][/\ RenderStep =>
          \A id \in DOMAIN renderers :
            (id \in ObjectIds(objects) /\ id \notin ObjectIds(objects')) =>
              id \notin DOMAIN renderers' /\ id \in DOMAIN ev'.died
     /\ \A id \in DOMAIN ev'.died : ev'.died[id] = 1
     /\ \A id \in DOMAIN renderers' : renderers'[id].destroyed = 0
     /\ \A k \in DOMAIN orphans' : orphans'[k].destroyed = 1]_vars

\* A render has destroyed the renderer of object 1, which only a list brings in.
C6_Witness ==
  /\ alive
  /\ mon.phase # "idle"
  /\ 1 \in DOMAIN ev.died
  /\ 1 \notin DOMAIN renderers

AddKinds == {"brush_line", "eraser_line", "rect"}

\* C8: commitBuffer on a brush_line, eraser_line or rect buffer issues one
\* request, addBrushLine, addEraserLine or addRect by the kind, whose object
\* is the buffer under an id that differs from the id it had, and leaves no
\* buffer; a commitBuffer that follows a commitBuffer issues nothing.
C8_CommitAddsOnce ==
  [][/\ (CommitBuffer /\ buffer # Null /\ heap[buffer].type \in AddKinds) =>
          /\ Len(mutations') = Len(mutations) + 1
          /\ SubSeq(mutations', 1, Len(mutations)) = mutations
          /\ LET m == mutations'[Len(mutations')]
                 t == heap[buffer].type
             IN  /\ m.kind = (IF t = "brush_line" THEN "addBrushLine"
                              ELSE IF t = "eraser_line" THEN "addEraserLine"
                              ELSE "addRect")
                 /\ m.obj = buffer
                 /\ m.id = heap'[buffer].id
                 /\ m.id # heap[buffer].id
          /\ buffer' = Null
     /\ (CommitBuffer /\ ev.commit) => mutations' = mutations]_vars

\* commitBuffer has just run; an eraser line is the one object committed.
C8_Witness ==
  /\ ev.commit
  /\ buffer = Null
  /\ Len(mutations) = 1
  /\ mutations[1].kind = "addEraserLine"
  /\ heap[mutations[1].obj].id = mutations[1].id

\* C9 (as stated): commitBuffer issues an add request for a buffer of each
\* of the four known kinds, and for no other kind.
C9_FourKindsCommitted ==
  [][(CommitBuffer /\ buffer # Null) =>
       (heap[buffer].type \in KnownKinds <=> Len(mutations') = Len(mutations) + 1)]_vars

\* C9 (amended): commitBuffer issues an add request for a brush_line,
\* eraser_line or rect buffer; a buffer of any other kind, image included,
\* is dropped with no request; either way commitBuffer returns and leaves
\* no buffer.
C9_ThreeKindsCommitted ==
  [][(CommitBuffer /\ buffer # Null) =>
       /\ heap[buffer].type \in AddKinds => Len(mutations') = Len(mutations) + 1
       /\ heap[buffer].type \notin AddKinds => mutations' = mutations
       /\ buffer' = Null]_vars

\* commitBuffer has just dropped an image buffer: its renderer is still
\* under the id the draft had, and no request has been issued.
C9_Witness ==
  /\ ev.commit
  /\ buffer = Null
  /\ mutations = << >>
  /\ \E id \in DOMAIN renderers :
       renderers[id].type = "image" /\ heap[renderers[id].state].id # id

\* C10: commitBuffer without a buffer issues no request and leaves the
\* buffer, the renderer map, the object group and the object states as they
\* are.
C10_CommitWithoutBuffer ==
  [][(CommitBuffer /\ buffer = Null) =>
       UNCHANGED << mutations, buffer, renderers, orphans, group, calls, heap,
                    known, nextId, alive, objects >>]_vars

\* commitBuffer has just run with renderers in the map and no draft ever made.
C10_Witness ==
  /\ ev.commit
  /\ buffer = Null
  /\ heap = InitHeap
  /\ renderers # << >>

\* The step is a call of setBuffer.
SetBufferStep == \E t \in DraftKinds : SetBuffer(t)

\* The step is the settling of an image load inside a call whose kind is in
\* ops: that call goes on after its await.
LoadStepOf(ops) ==
  \E s \in Slots :
    /\ calls[s].op \in ops
    /\ \/ \E out \in {"ok", "null", "throw"} : GetImageDTODone(s, out)
       \/ \E out \in {"ok", "throw"} : LoadImageDone(s, out)

\* The requests that add an object.
AddRequests == {"addBrushLine", "addEraserLine", "addRect"}

\* C11: no step of render, setBuffer or clearBuffer issues a request, the
\* steps that follow their image loads included; clearBuffer leaves no
\* buffer, no add request has been issued for the object it drops, and an
\* add request is only ever issued by commitBuffer, for the object that is
\* the buffer at that moment.
C11_OnlyCommitMutates ==
  [][/\ (RenderStep \/ SetBufferStep \/ ClearBuffer
          \/ LoadStepOf({"render", "setBuffer"})) => mutations' = mutations
     /\ ClearBuffer =>
          /\ buffer' = Null
          /\ \A k \in 1..Len(mutations') :
               buffer # Null => mutations'[k].obj # buffer
     /\ \A k \in (Len(mutations) + 1)..Len(mutations') :
          mutations'[k].kind \in AddRequests =>
            CommitBuffer /\ mutations'[k].obj = buffer]_vars

\* clearBuffer has dropped a brush line draft, after another draft was
\* committed: the dropped draft is in no request and not in the state
\* container.
C11_Witness ==
  /\ buffer = Null
  /\ mutations # << >>
  /\ \E r \in (NInit + 1)..Len(heap) :
       /\ heap[r].type = "brush_line"
       /\ r \notin known
       /\ \A k \in 1..Len(mutations) : mutations[k].obj # r

\* C12: setBuffer makes a new object state the buffer, whatever the buffer
\* was, and renders it with force (a renderer of its id is in the map and
\* holds that state, or is loading its image), so that hasObjects() is true
\* afterwards; a later render, of the empty list or of any list, keeps the
\* instance of the buffer's renderer.
C12_BufferKept ==
  [][/\ SetBufferStep =>
          /\ buffer' # buffer /\ buffer' = Len(heap')
          /\ HasObjects'
          /\ heap'[buffer'].type \in KnownKinds =>
               /\ BufferId' \in DOMAIN renderers'
               /\ LET x == renderers'[BufferId']
                  IN  x.state = buffer' /\ (x.type = "image" => x.isLoading)
     /\ (RenderStep /\ buffer # Null /\ BufferId \in DOMAIN renderers) =>
          Kept(BufferId) /\ HasObjects']_vars

\* render([]) has returned: it destroyed the renderer of a committed object
\* and kept the renderer of the buffer, which setBuffer had built.
C12_Witness ==
  /\ RenderDone
  /\ objects = << >>
  /\ DOMAIN ev.died # {}
  /\ HasBuffer
  /\ DOMAIN renderers = {BufferId}
  /\ HasObjects

\* The call of slot s has, in this step, entered an image load on a renderer
\* of the map: updateImageSource has started a fetch.
FetchStarted(s) ==
  /\ calls'[s].pc = "dto"
  /\ calls'[s].n > 0
  /\ calls[s].pc # "dto" \/ calls[s].n # calls'[s].n

\* C13: an image node never shows an older bitmap after a newer one: the
\* bitmap a renderer shows is never replaced by the bitmap of a fetch that
\* started earlier, so of two fetches in flight the later-started one's
\* bitmap stays, in whichever order they resolve.
C13_NeverOlderBitmap ==
  [][\A id \in DOMAIN renderers :
       (Kept(id) /\ renderers'[id].shown < renderers[id].shown)
         => renderers'[id].img = renderers[id].img]_vars

\* C14: no fetch starts on an image renderer that is loading while a call is
\* inside a fetch of the same image on it, whatever the force argument of
\* the update.
C14_NoSecondFetch ==
  [][\A s \in Slots :
       FetchStarted(s) =>
         ~ \E t \in Slots \ {s} :
             /\ calls[t].pc \in LoadPcs
             /\ calls[t].n = calls'[s].n
             /\ renderers[calls[t].n].isLoading
             /\ heap[calls[t].r].name = heap[calls'[s].r].name]_vars

\* C15: the update of an image renderer with a state whose image differs
\* from the stored state's starts a fetch of the new image, also while the
\* renderer is loading.  (The update is render's, of the first object of
\* its list.)
C15_NewImageStartsFetch ==
  [][(RenderStep /\ objects' # << >>) =>
       LET r == objects'[1]
           id == heap[r].id
       IN  (/\ id \in DOMAIN renderers
            /\ renderers[id].type = "image"
            /\ heap[r].type = "image"
            /\ heap[renderers[id].state].name # heap[r].name)
           => \E s \in Slots : FetchStarted(s) /\ calls'[s].n = id /\ calls'[s].r = r]_vars

\* The step settles the image load of slot s with a failure: the fetch
\* resolves to not-found or throws, or the decode throws.
FailStep(s) ==
  \/ \E out \in {"null", "throw"} : GetImageDTODone(s, out)
  \/ LoadImageDone(s, "throw")

\* The renderer the load of slot s was on, as the step leaves it.
Settled(s) ==
  IF calls[s].n > 0 THEN renderers'[calls[s].n] ELSE ev'.stale[2]

\* C16: when the fetch of an image load resolves to not-found or throws, or
\* the decode throws, the renderer is left in the error state: isError is
\* true, isLoading false, the bitmap node hidden if there is one, the
\* placeholder visible with the error label; update stores the state and
\* returns, so that a render it was called from returns true.
C16_FailureIsErrorState ==
  [][\A s \in Slots :
       FailStep(s) =>
         /\ LET x == Settled(s)
            IN  /\ x.isError /\ ~x.isLoading
                /\ x.img # 0 => ~x.imgVisible
                /\ x.phVisible /\ x.phText = "error"
                /\ x.state = calls[s].r
         /\ (calls[s].op = "render" /\ mon.phase \in {"run1", "run2"}) =>
              RenderDone' /\ mon'.res]_vars

\* A render that ran alone has returned after its image failed to load, on
\* a renderer that shows a bitmap from an earlier load: the bitmap is
\* hidden and the placeholder shows the error.
C16_Witness ==
  /\ RenderDone /\ mon.res
  /\ \E id \in DOMAIN renderers :
       LET x == renderers[id]
       IN  /\ x.type = "image" /\ x.isError /\ ~x.isLoading
           /\ x.img # 0 /\ ~x.imgVisible
           /\ x.phVisible /\ x.phText = "error"
           /\ heap[x.state].name # x.img

\* C17: the settling of an image load whose renderer has been destroyed
\* changes nothing of the renderer: not isLoading, not isError, not the
\* bitmap node, not the placeholder.
C17_StaleCompletionNoOp ==
  ev.stale # << >> =>
    LET Seen(x) == << x.isLoading, x.isError, x.img, x.imgVisible, x.phVisible,
                      x.phText >>
    IN  Seen(ev.stale[1]) = Seen(ev.stale[2])

\* C18: when an update of the entity has run to its end, the layer is
\* visible if and only if the snapshot's isEnabled is true and hasObjects()
\* is true: an enabled entity with no object and no buffer is hidden, and an
\* enabled entity is visible once it has content.
C18_VisibleIffEnabledWithContent ==
  [][(alive' /\ entity' # entity /\ entity'.last.kind = "done") =>
       (entity'.visible <=> (entity'.state.en /\ HasObjects'))]_vars

\* C19: the first update of the entity, and no other, calls the transform
\* controller's updateBbox, whatever the snapshot it is given.
C19_FirstUpdateBbox ==
  entity.last.kind = "done" => (entity.last.bbox <=> entity.last.first)

\* C20: an update that is not the first render and is given the stored
\* snapshot does nothing: no render (the renderers, the object group and
\* the calls in flight stay as they are), no call on the transform
\* controller, no change of the layer's visibility or of the stored
\* snapshot.
C20_SameSnapshotSkipped ==
  [][(~entity.isFirstRender /\ EntityUpdate(entity.state)) =>
       /\ UNCHANGED << renderers, orphans, group, calls, objects, heap, buffer,
                       mutations >>
       /\ entity'.state = entity.state
       /\ entity'.visible = entity.visible
       /\ entity'.isFirstRender = entity.isFirstRender
       /\ LET c == entity'.last
          IN  ~c.render /\ ~c.rect /\ ~c.position /\ ~c.visibility /\ ~c.bbox]_vars

\* The entity has been given its stored snapshot again, after updates that
\* built a renderer, with a buffer set.
C20_Witness ==
  /\ entity.last.kind = "skipped"
  /\ entity.last.sn = entity.state
  /\ ~entity.isFirstRender
  /\ renderers # << >>
  /\ HasBuffer

\* C21: an update that is not skipped calls render if and only if it is the
\* first render or the snapshot's object list is not, by identity, the
\* stored snapshot's; it requests the transform controller's rect
\* calculation if and only if render was called and returned true; and it
\* computes no bounding box itself: updateBbox is not called by an update
\* after the first.
C21_RenderIffObjectsChanged ==
  [][\A sn \in {entity'.last.sn} :
       (EntityUpdate(sn) /\ (entity.isFirstRender \/ sn # entity.state)) =>
         LET c == entity'.last
         IN  /\ c.kind = "done"
             /\ c.render <=> (entity.isFirstRender \/ sn.ol # entity.state.ol)
             /\ c.rect <=> (c.render /\ c.did)
             /\ c.render => objects' = EntityLists[sn.ol]
             /\ ~c.render => UNCHANGED << renderers, group, objects >>
             /\ ~entity.isFirstRender => ~c.bbox]_vars

\* An update after the first was given a list that is another reference
\* with the same object: render was called, returned false, and no rect
\* calculation was requested.
C21_Witness ==
  /\ entity.last.kind = "done"
  /\ ~entity.last.first
  /\ entity.last.render /\ ~entity.last.did /\ ~entity.last.rect
  /\ renderers # << >>

\* The rect r of the layer, drawn on a stage with attributes attrs, covers
\* the visible viewport: the stage maps the local point p to
\* p * scale + position, and the viewport is the rectangle from (0, 0) to
\* (dimensions.width, dimensions.height).
Covers(attrs, r) ==
  /\ r.x * attrs.scale + attrs.position.x <= 0
  /\ r.y * attrs.scale + attrs.position.y <= 0
  /\ (r.x + r.width) * attrs.scale + attrs.position.x >= attrs.dimensions.width
  /\ (r.y + r.height) * attrs.scale + attrs.position.y >= attrs.dimensions.height

\* C22: at all times after the object renderer of an inpaint mask is
\* constructed (and before it is destroyed), the compositing rect, mapped
\* through the viewport transform, covers the visible viewport; a viewport
\* event sets it to -position/scale and dimensions/scale and changes no
\* object state.
C22_RectCoversViewport == alive => Covers(stageAttrs, compositingRect)

\* The place of step x in the teardown of the last step.
Place(x) == CHOOSE k \in 1..Len(ev.order) : ev.order[k] = x

\* C23: the entity's destroy() destroys the transform controller first, then
\* the object renderer, whose destroy destroys every live primitive
\* renderer once, empties the map and cancels the tool-state and viewport
\* subscriptions, and only then the entity's layer.
C23_DestroyOrder ==
  [][EntityDestroy =>
       /\ Len(ev'.order) = 5
       /\ ev'.order[1] = "transformer"
       /\ {ev'.order[k] : k \in 2..4} = {"subscriptions", "renderers", "map"}
       /\ ev'.order[5] = "layer"
       /\ ~entity'.transformer /\ ~entity'.layer
       /\ renderers' = << >>
       /\ DOMAIN ev'.died = DOMAIN renderers
       /\ \A id \in DOMAIN renderers : ev'.died[id] = 1
       /\ subscriptions = {"toolState", "stageAttrs"} /\ subscriptions' = {}]_vars

\* The entity has been destroyed while it had a renderer.
C23_Witness ==
  /\ ~alive /\ ~entity.layer /\ ~entity.transformer
  /\ DOMAIN ev.died # {}
  /\ ev.order # << >>
  /\ Place("transformer") < Place("renderers") /\ Place("renderers") < Place("layer")

\* C24: every request the object renderer has issued to the state
\* container, from commitBuffer or from rasterize, is keyed by the id of
\* the entity that owns the renderer (this.parent.id).
C24_KeyedByOwner ==
  \A k \in 1..Len(mutations) : mutations[k].key = "parent"

\* The renderers of the map that make a pixel bounding box necessary: eraser
\* lines, images, and brush lines whose state has a clip region.
PixelKinds ==
  {id \in DOMAIN renderers :
     \/ renderers[id].type \in {"eraser_line", "image"}
     \/ renderers[id].type = "brush_line" /\ heap[renderers[id].state].clip}

\* C25: needsPixelBbox() is true if and only if the map holds an eraser-line
\* renderer, an image renderer or a brush-line renderer whose state has a
\* clip region; it is false for the empty map and for a map of rects and
\* unclipped brush lines only.
C25_NeedsPixelBbox ==
  /\ NeedsPixelBbox <=> PixelKinds # {}
  /\ renderers = << >> => ~NeedsPixelBbox
  /\ (\A id \in DOMAIN renderers :
        \/ renderers[id].type = "rect"
        \/ renderers[id].type = "brush_line" /\ ~heap[renderers[id].state].clip)
       => ~NeedsPixelBbox

\* The map holds a clipped brush line and a rect, and nothing else.
C25_Witness ==
  /\ NeedsPixelBbox
  /\ \E id \in DOMAIN renderers : renderers[id].type = "rect"
  /\ \A id \in DOMAIN renderers : renderers[id].type \in {"rect", "brush_line"}

\* C26: whenever a step has called update on the renderer of the buffer,
\* its force argument was true: from setBuffer, and from every render while
\* the buffer is set, even when the buffer is the state that renderer has
\* already rendered.
C26_BufferForced ==
  (buffer # Null /\ BufferId \in DOMAIN ev.forced) => ev.forced[BufferId]

IsDestroyCall(e) == e.op = "destroy"
IsUpdateCall(e) == e.op = "update"

\* The object states the updates of trail t were called on, first to last.
Updated(t) ==
  [k \in 1..Len(SelectSeq(t, IsUpdateCall)) |-> SelectSeq(t, IsUpdateCall)[k].of]

IsPrefix(a, b) == Len(a) <= Len(b) /\ SubSeq(b, 1, Len(a)) = a

\* The buffer, if renderObject has a renderer for its kind.
BufferLast ==
  IF buffer # Null /\ heap[buffer].type \in KnownKinds THEN << buffer >> ELSE << >>

\* C27: a render call first destroys every stale renderer (id neither in
\* its list nor the buffer's) and nothing else, then calls update for the
\* objects of its list in list order, then for the buffer, in the task it
\* starts in and in the tasks that follow its image loads; it returns true
\* if and only if it has destroyed a renderer or an update has returned
\* true.
C27_RenderOrder ==
  [][/\ RenderStep =>
          LET t == ev'.trail
              d == Len(SelectSeq(t, IsDestroyCall))
          IN  /\ \A k \in 1..Len(t) : IsDestroyCall(t[k]) <=> k <= d
              /\ {t[k].of : k \in 1..d} =
                    {id \in DOMAIN renderers :
                       id \notin ObjectIds(objects') /\ id # BufferId}
              /\ IsPrefix(Updated(t), objects' \o BufferLast)
              /\ RenderDone' =>
                    /\ Updated(t) = objects' \o BufferLast
                    /\ mon'.res <=>
                         (d > 0 \/ \E k \in 1..Len(t) : IsUpdateCall(t[k]) /\ t[k].res)
     /\ \A s \in Slots :
          (calls[s].op = "render" /\ calls'[s] # calls[s] /\ LoadStepOf({"render"})) =>
            LET f == calls[s]
                rest == IF f.i <= Len(f.list)
                        THEN SubSeq(f.list, f.i + 1, Len(f.list)) \o BufferLast
                        ELSE << >>
            IN  /\ SelectSeq(ev'.trail, IsDestroyCall) = << >>
                /\ IsPrefix(Updated(ev'.trail), rest)
                /\ RenderDone' => Updated(ev'.trail) = rest /\ mon'.res]_vars

\* A render has returned that destroyed a stale renderer, then updated the
\* object of its list, then the buffer.
C27_Witness ==
  /\ RenderDone
  /\ buffer # Null
  /\ Len(ev.trail) = 3
  /\ IsDestroyCall(ev.trail[1])
  /\ Updated(ev.trail) = objects \o << buffer >>

\* The step has called update, without force, on the image renderer of id
\* with the state r that renderer holds, and has made no other call on it:
\* entry k of the trail is that call.
SameStateUpdate(k, id, r) ==
  /\ k \in 1..Len(ev'.trail)
  /\ ev'.trail[k] = [op |-> "update", of |-> r, res |-> ev'.trail[k].res]
  /\ heap[r].type = "image" /\ heap[r].id = id
  /\ id \in DOMAIN renderers /\ renderers[id].type = "image"
  /\ renderers[id].state = r
  /\ id \in DOMAIN ev'.forced /\ ~ev'.forced[id]
  /\ \A j \in 1..Len(ev'.trail) :
       (j # k /\ IsUpdateCall(ev'.trail[j])) => heap[ev'.trail[j].of].id # id
  /\ \A s \in Slots : calls[s].n = id => calls'[s] = calls[s]

\* C28: update(state, force) of an image renderer with force false and the
\* state it holds returns false, starts no fetch and leaves the renderer as
\* it is: stored state, isLoading, isError and the nodes' attributes.
C28_SameStateNoOp ==
  [][\A id \in DOMAIN renderers, r \in 1..Len(heap) :
       \A k \in 1..Len(ev'.trail) :
         SameStateUpdate(k, id, r) =>
           /\ ~ev'.trail[k].res
           /\ id \in DOMAIN renderers'
           /\ [renderers'[id] EXCEPT !.asked = r] = [renderers[id] EXCEPT !.asked = r]
           /\ \A s \in Slots : ~FetchStarted(s) \/ calls'[s].n # id]_vars

\* A render has called update on an image renderer that is in the error
\* state, with the state it holds, while nothing is loading.
C28_Witness ==
  /\ NoCalls
  /\ \E id \in DOMAIN renderers :
       /\ renderers[id].type = "image" /\ renderers[id].isError
       /\ id \in DOMAIN ev.forced /\ ~ev.forced[id]
       /\ ev.trail = << [op |-> "update", of |-> renderers[id].state, res |-> FALSE] >>

\* C29: an image renderer in the loaded state (not loading, no error, a
\* bitmap node present) shows its bitmap node and hides its placeholder,
\* also when the load that succeeded follows a load that failed.
C29_LoadedIsVisible ==
  \A id \in DOMAIN renderers :
    (/\ renderers[id].type = "image"
     /\ ~renderers[id].isLoading /\ ~renderers[id].isError
     /\ renderers[id].img # 0)
      => renderers[id].imgVisible /\ ~renderers[id].phVisible

\* No fetch is in flight on the renderer of id, and it is neither loading
\* nor in error.
Quiescent(id) ==
  /\ ~renderers[id].isLoading /\ ~renderers[id].isError
  /\ \A s \in Slots : ~(calls[s].pc \in LoadPcs /\ calls[s].n = id)

\* C30: whenever an image renderer is quiescent, the bitmap it shows is the
\* one its stored state names, and its stored state is the state of the
\* update call that started last.
C30_QuiescentIsLatest ==
  \A id \in DOMAIN renderers :
    (renderers[id].type = "image" /\ Quiescent(id)) =>
      /\ renderers[id].img = heap[renderers[id].state].name
      /\ renderers[id].state = renderers[id].asked

\* The step settles the load of slot s.
SettleStep(s) ==
  /\ calls[s].pc \in LoadPcs
  /\ calls'[s] # calls[s]
  /\ calls'[s].pc \notin LoadPcs

\* C31: every load started on an image renderer ends, the fetch and the
\* decode resolving or rejecting; the step that ends it leaves the renderer
\* not loading, in the loaded state (bitmap node, no error) or in the error
\* state, and the mutex is free after every step, a swap that throws
\* included.
C31_LoadsEnd ==
  /\ \A s \in Slots : (calls[s].pc \in LoadPcs) ~> (calls[s].pc \notin LoadPcs)
  /\ [][\A s \in Slots :
          SettleStep(s) =>
            LET x == Settled(s)
            IN  /\ ~x.isLoading
                /\ x.isError \/ x.img # 0]_vars
  /\ [](\A id \in DOMAIN renderers : ~renderers[id].locked)
  /\ [](\A k \in DOMAIN orphans : ~orphans[k].locked)

\* A swap has thrown after the bitmap node took the new element: the
\* renderer is in the error state with that bitmap, and no load is in
\* flight.
C31_Witness ==
  /\ NoCalls
  /\ \E id \in DOMAIN renderers :
       /\ renderers[id].isError /\ ~renderers[id].isLoading
       /\ renderers[id].img # 0 /\ renderers[id].img = renderers[id].el
       /\ renderers[id].shown = renderers[id].nth
       /\ ~renderers[id].locked

\* C33: the first update of the entity forwards the position to the
\* transform controller and applies the visibility, whatever snapshot it is
\* given, the constructor's included; a later update that is not skipped
\* forwards the position if and only if the snapshot's position is not the
\* stored snapshot's.
C33_FirstUpdateForwardsAll ==
  [][\A sn \in {entity'.last.sn} :
       (EntityUpdate(sn) /\ entity'.last.kind = "done") =>
         LET c == entity'.last
         IN  /\ entity.isFirstRender => c.position /\ c.visibility
             /\ ~entity.isFirstRender => (c.position <=> sn.pos # entity.state.pos)]_vars

\* C32: once every update call of the entity has completed, updates that
\* overlapped included, the stored snapshot is the one supplied last and the
\* map holds the renderers of that snapshot's objects and of the buffer.
C32_LastSnapshotWins ==
  (NoCalls /\ entity.last.kind = "done") =>
    /\ entity.state = entity.supplied
    /\ DOMAIN renderers =
         ObjectIds(EntityLists[entity.supplied.ol]) \cup (IF buffer = Null THEN {} ELSE {BufferId})

\* The step is a tool-state event that reaches the subscriber of a live
\* object renderer with a change of the selected tool, a buffer being set.
ToolChangeWithBuffer ==
  /\ ToolEvent(toolState')
  /\ "toolState" \in subscriptions
  /\ toolState'.selected # toolState.selected
  /\ buffer # Null

\* The add request of a buffer of type t.
AddRequestOf(t) ==
  CASE t = "brush_line" -> "addBrushLine"
    [] t = "eraser_line" -> "addEraserLine"
    [] t = "rect" -> "addRect"

\* C34 (as stated): a change of the selected tool while a buffer is set and
\* the object renderer is not destroyed commits the buffer: one add request
\* is issued for it and the buffer is cleared.
C34_ToolChangeCommits ==
  [][ToolChangeWithBuffer =>
       /\ buffer' = Null
       /\ Len(mutations') = Len(mutations) + 1
       /\ mutations'[Len(mutations')].obj = buffer]_vars

\* C34 (amended): a change of the selected tool while a buffer is set and
\* the object renderer is not destroyed clears the buffer, and issues the
\* one matching add request if the buffer is a brush line, an eraser line
\* or a rect, and no request otherwise; a tool-state event that leaves the
\* selected tool as it is, and any tool-state event after destroy, issues
\* nothing and leaves the buffer.
C34_ToolChangeCommitsKinds ==
  [][ToolEvent(toolState') =>
       IF ToolChangeWithBuffer
       THEN /\ buffer' = Null
            /\ IF heap[buffer].type \in AddKinds
               THEN /\ Len(mutations') = Len(mutations) + 1
                    /\ SubSeq(mutations', 1, Len(mutations)) = mutations
                    /\ mutations'[Len(mutations')].kind = AddRequestOf(heap[buffer].type)
                    /\ mutations'[Len(mutations')].obj = buffer
               ELSE mutations' = mutations
       ELSE mutations' = mutations /\ buffer' = buffer]_vars

\* A change of the selected tool has committed a rect draft, and a later
\* event that changed the brush width only has left the next draft alone.
C34_Witness ==
  /\ alive
  /\ Len(mutations) = 1 /\ mutations[1].kind = "addRect"
  /\ toolState = [selected |-> "eraser", width |-> 2]
  /\ buffer # Null
  /\ ~ev.commit /\ ev.built = {}

\* The requests rasterize has issued among ms.
RasterizeRequests(ms) == {i \in 1..Len(ms) : ms[i].kind = "rasterizeEntity"}

\* Frame s is a call of rasterize that ends in this step.
RasterizeEnds(s) == calls[s].op = "rasterize" /\ calls'[s].op = "idle"

\* C35: a call of rasterize issues exactly one rasterizeEntity request, at
\* its end, only after the upload has succeeded and the new image object has
\* been force-rendered, the primitive renderer of that object being in the
\* live map; a call whose rasterization or upload fails issues no request
\* and leaves the live map as it was.
C35_RasterizeReportsOnce ==
  [][/\ RasterizeRequests(mutations') # RasterizeRequests(mutations) =>
          \E s \in Slots :
            /\ RasterizeEnds(s)
            /\ calls[s].pc \in LoadPcs
            /\ mutations' = Append(mutations, mutations'[Len(mutations')])
            /\ mutations'[Len(mutations')].obj = calls[s].r
            /\ heap[calls[s].r].id \in DOMAIN renderers'
     /\ \A s \in Slots :
          RasterizeEnds(s) =>
            IF calls[s].pc \in {"blob", "upload"}
            THEN mutations' = mutations /\ renderers' = renderers
            ELSE Cardinality(RasterizeRequests(mutations')) =
                   Cardinality(RasterizeRequests(mutations)) + 1]_vars

====
